---- MODULE Spec2Model ----
(***************************************************************************)
(* A model of examples/api/web3_examples.py: the JSON-RPC client           *)
(* DeoWeb3Client (its request counter, the envelope it posts, the value it *)
(* returns), its sixteen convenience wrappers, the conversion helpers      *)
(* hex_to_int / int_to_hex, and the polling loop monitor_blockchain.       *)
(*                                                                         *)
(* Python values are modelled as follows.                                  *)
(*  - A JSON value is a record [t, s, n, o]: t is the type tag, s the text *)
(*    of a string, n the value of a number, o the members of an object as  *)
(*    a set of <<key, value>> pairs.  None is the JSON null.               *)
(*  - The text of a string is a sequence of tokens.  Text that may be      *)
(*    parsed as a number is written one character per token                *)
(*    ("0x10" is <<"0","x","1","0">>); concatenation is \o.                *)
(*  - The outcome of a call is [exc, v]: exc = "" and v the value          *)
(*    returned, or exc the name of the exception that propagates.          *)
(***************************************************************************)
EXTENDS Integers, Sequences, FiniteSets, TLC

VARIABLES
    request_id,     \* DeoWeb3Client.request_id
    sent_ids,       \* the id fields of the envelopes handed to requests.post, in order
    payload,        \* the envelope of the latest call
    net,            \* what the transport did with the latest envelope
    result,         \* what _make_request gave back to its caller
    ret,            \* what the called method gave back to the program
    call,           \* the latest invocation: the method called and the arguments passed
    failed,         \* how many calls so far ended in a transport failure
    pc,             \* threads: each thread's position inside _make_request
    t_payload,      \* threads: each thread's local payload
    t_loaded,       \* threads: the request_id each thread read for its += 1
    t_calls,        \* threads: the calls each thread has completed
    mon_pc,         \* monitor_blockchain: position in the loop
    last_block,     \* monitor_blockchain: last_block
    current_block,  \* monitor_blockchain: current_block
    block_info,     \* monitor_blockchain: block_info
    announced,      \* monitor_blockchain: the "New block" lines printed: the polled
                    \* value each stands for and the number it shows
    hex_str,        \* conversion helpers: the string given to hex_to_int
    value,          \* conversion helpers: the integer given to int_to_hex
    conv_op,        \* conversion helpers: the helper applied last
    conv_ret        \* conversion helpers: its outcome

client_vars == <<request_id, sent_ids, payload, net, result, ret, call, failed>>
thread_vars == <<pc, t_payload, t_loaded, t_calls>>
monitor_vars == <<mon_pc, last_block, current_block, block_info, announced>>
conv_vars == <<hex_str, value, conv_op, conv_ret>>
vars == <<client_vars, thread_vars, monitor_vars, conv_vars>>

(***************************************************************************)
(* Bounds of the model.                                                    *)
(***************************************************************************)
MaxCalls == 3
MaxLen == 3
MaxInt == 300
NumThreads == 2
MaxThreadCalls == 2
MaxMonitorRequests == 5

(***************************************************************************)
(* JSON / Python values.                                                   *)
(***************************************************************************)
JNull == [t |-> "null", s |-> <<>>, n |-> 0, o |-> {}]
JStr(text) == [t |-> "str", s |-> text, n |-> 0, o |-> {}]
JInt(k) == [t |-> "int", s |-> <<>>, n |-> k, o |-> {}]
JBool(b) == [t |-> "bool", s |-> <<>>, n |-> IF b THEN 1 ELSE 0, o |-> {}]
JObj(members) == [t |-> "obj", s |-> <<>>, n |-> 0, o |-> members]

Keys(d) == {m[1] : m \in d.o}
\* dict.get(key, default)
Get(d, key, default) ==
    IF key \in Keys(d) THEN (CHOOSE m \in d.o : m[1] = key)[2] ELSE default

\* Python truth value of a JSON value: None, "", 0, False and {} are false.
Truthy(v) ==
    CASE v.t = "null" -> FALSE
      [] v.t = "str" -> v.s # <<>>
      [] v.t = "int" -> v.n # 0
      [] v.t = "bool" -> v.n # 0
      [] OTHER -> v.o # {}

Return(v) == [exc |-> "", v |-> v]
Raise(e) == [exc |-> e, v |-> JNull]

(***************************************************************************)
(* hex_to_int / int_to_hex.                                                *)
(***************************************************************************)
HexChars == <<"0", "1", "2", "3", "4", "5", "6", "7", "8", "9",
              "a", "b", "c", "d", "e", "f">>
UpperHex == <<"0", "1", "2", "3", "4", "5", "6", "7", "8", "9",
              "A", "B", "C", "D", "E", "F">>
IsHexDigit(c) == \E i \in 1..16 : HexChars[i] = c \/ UpperHex[i] = c
IsDecDigit(c) == \E i \in 1..10 : HexChars[i] = c
DigitVal(c) == (CHOOSE i \in 1..16 : HexChars[i] = c \/ UpperHex[i] = c) - 1

\* The digits of text read left to right in the given base (int's accumulation).
RECURSIVE ParseDigits(_, _, _)
ParseDigits(text, base, acc) ==
    IF text = <<>> THEN acc
    ELSE ParseDigits(Tail(text), base, acc * base + DigitVal(Head(text)))

\* int(text, 16) for a text that starts with "0x": the prefix is dropped and at
\* least one hexadecimal digit must follow.
IntBase16(text) ==
    LET digits == SubSeq(text, 3, Len(text))
    IN  IF digits # <<>> /\ \A i \in 1..Len(digits) : IsHexDigit(digits[i])
        THEN Return(JInt(ParseDigits(digits, 16, 0)))
        ELSE Raise("ValueError")

\* int(text): an optional sign, then at least one decimal digit.
IntBase10(text) ==
    LET signed == text # <<>> /\ Head(text) \in {"-", "+"}
        digits == IF signed THEN Tail(text) ELSE text
        mag == ParseDigits(digits, 10, 0)
    IN  IF digits # <<>> /\ \A i \in 1..Len(digits) : IsDecDigit(digits[i])
        THEN Return(JInt(IF signed /\ Head(text) = "-" THEN 0 - mag ELSE mag))
        ELSE Raise("ValueError")

StartsWith0x(text) == Len(text) >= 2 /\ text[1] = "0" /\ text[2] = "x"

hex_to_int_base16_always(hex_str_arg) ==
    IF hex_str_arg.t # "str" THEN Raise("AttributeError")
    ELSE IF StartsWith0x(hex_str_arg.s) THEN IntBase16(hex_str_arg.s)
    ELSE IntBase16(<<"0", "x">> \o hex_str_arg.s)

hex_to_int(hex_str_arg) ==
    IF hex_str_arg.t # "str" THEN Raise("AttributeError")
    ELSE IF StartsWith0x(hex_str_arg.s) THEN IntBase16(hex_str_arg.s)
    ELSE IntBase10(hex_str_arg.s)

\* The lowercase base-16 digits of a non-negative integer, most significant first.
RECURSIVE HexDigitsOf(_)
HexDigitsOf(k) ==
    IF k < 16 THEN <<HexChars[k + 1]>>
    ELSE HexDigitsOf(k \div 16) \o <<HexChars[(k % 16) + 1]>>

int_to_hex_no_prefix(value_arg) ==
    IF value_arg < 0 THEN JStr(<<"-">> \o HexDigitsOf(0 - value_arg))
    ELSE JStr(HexDigitsOf(value_arg))

\* hex(value): "0x..." and, for a negative value, "-0x...".
int_to_hex(value_arg) ==
    IF value_arg < 0 THEN JStr(<<"-", "0", "x">> \o HexDigitsOf(0 - value_arg))
    ELSE JStr(<<"0", "x">> \o HexDigitsOf(value_arg))

(***************************************************************************)
(* The transport and the node: what requests.post, raise_for_status and    *)
(* response.json can do with one envelope.                                 *)
(***************************************************************************)
\* Failures of the transport, all subclasses of requests' RequestException.
TransportFailures == {"ConnectionError", "Timeout", "HTTPError"}
\* response.json() on a body that is not JSON raises requests' JSONDecodeError,
\* a RequestException too.
RequestExceptions == TransportFailures \cup {"JSONDecodeError"}

Failure(kind, cause) == [kind |-> kind, cause |-> <<cause>>, body |-> JNull]
Ok(body) == [kind |-> "ok", cause |-> <<>>, body |-> body]

Hex4d2 == JStr(<<"0", "x", "4", "d", "2">>)
Hex1 == JStr(<<"0", "x", "1">>)
Hex01 == JStr(<<"0", "x", "0", "1">>)
Bare0x == JStr(<<"0", "x">>)
BlockHash == JStr(<<"0", "x", "a", "b">>)
BlockFull == JObj({<<"timestamp", Hex1>>, <<"hash", BlockHash>>})
BlockNoTimestamp == JObj({<<"hash", BlockHash>>})
BlockBadTimestamp == JObj({<<"timestamp", Bare0x>>, <<"hash", BlockHash>>})
ResultValues ==
    {Hex4d2, Hex1, Hex01, Bare0x, JNull, JBool(TRUE), JInt(7),
     BlockFull, BlockNoTimestamp, BlockBadTimestamp}
RpcError == JObj({<<"code", JInt(-32601)>>, <<"message", JStr(<<"Method not found">>)>>})

\* The JSON-RPC members every response of the node carries.
Common(id) == {<<"jsonrpc", JStr(<<"2.0">>)>>, <<"id", JInt(id)>>}
Bodies(id, results) ==
    {JObj(Common(id) \cup {<<"result", v>>}) : v \in results}
    \cup {JObj(Common(id) \cup {<<"error", RpcError>>}),
          JObj(Common(id) \cup {<<"error", RpcError>>, <<"result", JNull>>}),
          JObj(Common(id)),
          JStr(<<"busy">>)}

Nets(id, results) ==
    {Ok(b) : b \in Bodies(id, results)}
    \cup {Failure("ConnectionError", "Connection refused"),
          Failure("Timeout", "Read timed out"),
          Failure("HTTPError", "500 Server Error"),
          Failure("JSONDecodeError", "Expecting value")}

(***************************************************************************)
(* DeoWeb3Client.                                                          *)
(***************************************************************************)
NoParams == [some |-> FALSE, v |-> <<>>]
Params(list) == [some |-> TRUE, v |-> list]
NoPayload == [jsonrpc |-> "", method |-> "", params |-> <<>>, id |-> 0]
NoNet == [kind |-> "", cause |-> <<>>, body |-> JNull]
NoCall == [wrapper |-> "", args |-> <<>>]

\* Lines 27-35: params defaults to [] and the envelope takes the current id.
Envelope(method, params, id) ==
    [jsonrpc |-> "2.0", method |-> method,
     params |-> IF params.some THEN params.v ELSE <<>>, id |-> id]

ErrorObject(n) == JObj({<<"error", JStr(<<"Request failed: ">> \o n.cause)>>})

Respond_http_error_uncaught(n) ==
    IF n.kind = "ok" THEN Return(n.body)
    ELSE IF n.kind \in RequestExceptions \ {"HTTPError"} THEN Return(ErrorObject(n))
    ELSE Raise(n.kind)

Respond_unwrapped(n) ==
    IF n.kind = "ok"
    THEN Return(IF n.body.t = "obj" THEN Get(n.body, "result", n.body) ELSE n.body)
    ELSE IF n.kind \in RequestExceptions THEN Return(ErrorObject(n))
    ELSE Raise(n.kind)

\* Lines 39-49: the parsed body, or the error object for a RequestException;
\* any other exception propagates.
Respond(n) ==
    IF n.kind = "ok" THEN Return(n.body)
    ELSE IF n.kind \in RequestExceptions THEN Return(ErrorObject(n))
    ELSE Raise(n.kind)

_make_request_increment_on_success(method, params, n) ==
    /\ payload' = Envelope(method, params, request_id)
    /\ request_id' = IF n.kind = "ok" THEN request_id + 1 ELSE request_id
    /\ sent_ids' = Append(sent_ids, payload'.id)
    /\ net' = n
    /\ result' = Respond(n)
    /\ failed' = IF n.kind \in TransportFailures THEN failed + 1 ELSE failed

_make_request(method, params, n) ==
    /\ payload' = Envelope(method, params, request_id)
    /\ request_id' = request_id + 1
    /\ sent_ids' = Append(sent_ids, payload'.id)
    /\ net' = n
    /\ result' = Respond(n)
    /\ failed' = IF n.kind \in TransportFailures THEN failed + 1 ELSE failed

ExtractResult_or_error(r) ==
    IF r.exc # "" THEN r
    ELSE IF r.v.t # "obj" THEN Raise("AttributeError")
    ELSE Return(Get(r.v, "result", Get(r.v, "error", JNull)))

\* result.get("result"): an exception of _make_request propagates, a body that
\* is no dict has no get.
ExtractResult(r) ==
    IF r.exc # "" THEN r
    ELSE IF r.v.t # "obj" THEN Raise("AttributeError")
    ELSE Return(Get(r.v, "result", JNull))

\* The body every wrapper shares: one _make_request, then result.get("result").
Wrapper(name, method, params, args, n) ==
    /\ _make_request(method, params, n)
    /\ ret' = ExtractResult(result')
    /\ call' = [wrapper |-> name, args |-> args]

Latest == JStr(<<"latest">>)
\* The i-th positional argument, or the parameter's default when it is omitted.
Arg(args, i, default) == IF Len(args) >= i THEN args[i] ELSE default

get_block_number(args, n) ==
    Wrapper("get_block_number", "eth_blockNumber", NoParams, args, n)
get_balance(args, n) ==
    Wrapper("get_balance", "eth_getBalance",
            Params(<<args[1], Arg(args, 2, Latest)>>), args, n)
get_block_by_number(args, n) ==
    Wrapper("get_block_by_number", "eth_getBlockByNumber",
            Params(<<args[1], Arg(args, 2, JBool(FALSE))>>), args, n)
get_block_by_hash(args, n) ==
    Wrapper("get_block_by_hash", "eth_getBlockByHash",
            Params(<<args[1], Arg(args, 2, JBool(FALSE))>>), args, n)
get_transaction_by_hash(args, n) ==
    Wrapper("get_transaction_by_hash", "eth_getTransactionByHash",
            Params(<<args[1]>>), args, n)
get_transaction_receipt(args, n) ==
    Wrapper("get_transaction_receipt", "eth_getTransactionReceipt",
            Params(<<args[1]>>), args, n)
call_contract(args, n) ==
    Wrapper("call_contract", "eth_call",
            Params(<<args[1], Arg(args, 2, Latest)>>), args, n)
send_raw_transaction(args, n) ==
    Wrapper("send_raw_transaction", "eth_sendRawTransaction",
            Params(<<args[1]>>), args, n)
estimate_gas(args, n) ==
    Wrapper("estimate_gas", "eth_estimateGas", Params(<<args[1]>>), args, n)
get_gas_price(args, n) ==
    Wrapper("get_gas_price", "eth_gasPrice", NoParams, args, n)
get_code(args, n) ==
    Wrapper("get_code", "eth_getCode",
            Params(<<args[1], Arg(args, 2, Latest)>>), args, n)
get_storage_at_position_first(args, n) ==
    Wrapper("get_storage_at", "eth_getStorageAt",
            Params(<<args[2], args[1], Arg(args, 3, Latest)>>), args, n)
get_storage_at(args, n) ==
    Wrapper("get_storage_at", "eth_getStorageAt",
            Params(<<args[1], args[2], Arg(args, 3, Latest)>>), args, n)
get_network_version(args, n) ==
    Wrapper("get_network_version", "net_version", NoParams, args, n)
is_listening(args, n) ==
    Wrapper("is_listening", "net_listening", NoParams, args, n)
get_peer_count(args, n) ==
    Wrapper("get_peer_count", "net_peerCount", NoParams, args, n)
get_client_version(args, n) ==
    Wrapper("get_client_version", "web3_clientVersion", NoParams, args, n)

\* A caller that uses _make_request itself.
invoke(method, params, n) ==
    /\ _make_request(method, params, n)
    /\ ret' = result'
    /\ call' = [wrapper |-> "_make_request", args |-> params.v]

(***************************************************************************)
(* Spec: one client, one caller, any sequence of calls.                    *)
(***************************************************************************)
\* What callers pass: the wrappers take any value, of any type.
ArgVals == {BlockHash, JBool(TRUE)}
\* What the node answers to the calls of Spec.
CallerResults == {Hex4d2, JNull, JBool(TRUE), BlockFull}
ArgLists(least, most) == UNION {[1..k -> ArgVals] : k \in least..most}

ClientInit ==
    /\ request_id = 1
    /\ sent_ids = <<>>
    /\ payload = NoPayload
    /\ net = NoNet
    /\ result = Return(JNull)
    /\ ret = Return(JNull)
    /\ call = NoCall
    /\ failed = 0
ThreadsIdle ==
    /\ pc = <<>>
    /\ t_payload = <<>>
    /\ t_loaded = <<>>
    /\ t_calls = <<>>
MonitorIdle ==
    /\ mon_pc = "off"
    /\ last_block = JNull
    /\ current_block = JNull
    /\ block_info = JNull
    /\ announced = <<>>
ConvIdle ==
    /\ hex_str = <<>>
    /\ value = 0
    /\ conv_op = ""
    /\ conv_ret = Return(JNull)

Init == ClientInit /\ ThreadsIdle /\ MonitorIdle /\ ConvIdle

\* The program makes one more call; nothing else of the model moves.
OneMoreCall ==
    /\ Len(sent_ids) < MaxCalls
    /\ UNCHANGED <<thread_vars, monitor_vars, conv_vars>>

\* The program calls a wrapper with one of the argument lists it accepts.
Call_get_block_number ==
    /\ OneMoreCall
    /\ \E args \in ArgLists(0, 0), n \in Nets(request_id, CallerResults) : get_block_number(args, n)
Call_get_balance ==
    /\ OneMoreCall
    /\ \E args \in ArgLists(1, 2), n \in Nets(request_id, CallerResults) : get_balance(args, n)
Call_get_block_by_number ==
    /\ OneMoreCall
    /\ \E args \in ArgLists(1, 2), n \in Nets(request_id, CallerResults) : get_block_by_number(args, n)
Call_get_block_by_hash ==
    /\ OneMoreCall
    /\ \E args \in ArgLists(1, 2), n \in Nets(request_id, CallerResults) : get_block_by_hash(args, n)
Call_get_transaction_by_hash ==
    /\ OneMoreCall
    /\ \E args \in ArgLists(1, 1), n \in Nets(request_id, CallerResults) : get_transaction_by_hash(args, n)
Call_get_transaction_receipt ==
    /\ OneMoreCall
    /\ \E args \in ArgLists(1, 1), n \in Nets(request_id, CallerResults) : get_transaction_receipt(args, n)
Call_call_contract ==
    /\ OneMoreCall
    /\ \E args \in ArgLists(1, 2), n \in Nets(request_id, CallerResults) : call_contract(args, n)
Call_send_raw_transaction ==
    /\ OneMoreCall
    /\ \E args \in ArgLists(1, 1), n \in Nets(request_id, CallerResults) : send_raw_transaction(args, n)
Call_estimate_gas ==
    /\ OneMoreCall
    /\ \E args \in ArgLists(1, 1), n \in Nets(request_id, CallerResults) : estimate_gas(args, n)
Call_get_gas_price ==
    /\ OneMoreCall
    /\ \E args \in ArgLists(0, 0), n \in Nets(request_id, CallerResults) : get_gas_price(args, n)
Call_get_code ==
    /\ OneMoreCall
    /\ \E args \in ArgLists(1, 2), n \in Nets(request_id, CallerResults) : get_code(args, n)
Call_get_storage_at ==
    /\ OneMoreCall
    /\ \E args \in ArgLists(2, 3), n \in Nets(request_id, CallerResults) : get_storage_at(args, n)
Call_get_network_version ==
    /\ OneMoreCall
    /\ \E args \in ArgLists(0, 0), n \in Nets(request_id, CallerResults) : get_network_version(args, n)
Call_is_listening ==
    /\ OneMoreCall
    /\ \E args \in ArgLists(0, 0), n \in Nets(request_id, CallerResults) : is_listening(args, n)
Call_get_peer_count ==
    /\ OneMoreCall
    /\ \E args \in ArgLists(0, 0), n \in Nets(request_id, CallerResults) : get_peer_count(args, n)
Call_get_client_version ==
    /\ OneMoreCall
    /\ \E args \in ArgLists(0, 0), n \in Nets(request_id, CallerResults) : get_client_version(args, n)
Call_make_request ==
    /\ OneMoreCall
    /\ \E method \in {"eth_chainId"}, params \in {NoParams, Params(<<BlockHash>>)},
          n \in Nets(request_id, CallerResults) : invoke(method, params, n)

Next ==
    \/ Call_get_block_number
    \/ Call_get_balance
    \/ Call_get_block_by_number
    \/ Call_get_block_by_hash
    \/ Call_get_transaction_by_hash
    \/ Call_get_transaction_receipt
    \/ Call_call_contract
    \/ Call_send_raw_transaction
    \/ Call_estimate_gas
    \/ Call_get_gas_price
    \/ Call_get_code
    \/ Call_get_storage_at
    \/ Call_get_network_version
    \/ Call_is_listening
    \/ Call_get_peer_count
    \/ Call_get_client_version
    \/ Call_make_request

Spec == Init /\ [][Next]_vars

(***************************************************************************)
(* Claims about the client, checked under Spec.                            *)
(***************************************************************************)
WrapperNames ==
    {"get_block_number", "get_balance", "get_block_by_number", "get_block_by_hash",
     "get_transaction_by_hash", "get_transaction_receipt", "call_contract",
     "send_raw_transaction", "estimate_gas", "get_gas_price", "get_code",
     "get_storage_at", "get_network_version", "is_listening", "get_peer_count",
     "get_client_version"}

\* C1: the k-th envelope of a client carries id k, whatever became of the
\* earlier calls; request_id starts at 1 and has grown by one with every call.
C1_IdsCountUp ==
    /\ \A k \in 1..Len(sent_ids) : sent_ids[k] = k
    /\ request_id = Len(sent_ids) + 1
    /\ Len(sent_ids) > 0 => payload.id = Len(sent_ids)

\* A third call that succeeds after an earlier call failed in the transport.
C1_ThirdCallAfterFailure ==
    /\ Len(sent_ids) = 3
    /\ payload.id = 3
    /\ failed >= 1
    /\ net.kind = "ok"

\* C2: a connection failure, a timeout or an HTTP error status makes
\* _make_request return the object {"error": "Request failed: <cause>"} and
\* nothing else; no exception reaches the caller, and the call has ended with
\* the counter moved on to the next id.
C2_TransportFailureIsReturned ==
    net.kind \in {"ConnectionError", "Timeout", "HTTPError"} =>
        /\ result.exc = ""
        /\ result.v.t = "obj"
        /\ Keys(result.v) = {"error"}
        /\ \A m \in result.v.o :
              /\ m[2].t = "str"
              /\ Len(m[2].s) = 1 + Len(net.cause)
              /\ Head(m[2].s) = "Request failed: "
              /\ Tail(m[2].s) = net.cause
        /\ ret.exc = ""
        /\ request_id = payload.id + 1

\* A call that fails in the transport on a client whose previous call failed too.
C2_FailureAfterFailure ==
    /\ net.kind = "HTTPError"
    /\ failed = 2
    /\ Len(sent_ids) = 2
    /\ "error" \in Keys(result.v)

\* C3: when _make_request returns an object with an error member and no result
\* member, the wrapper returns None and raises nothing.
C3_ErrorYieldsNone ==
    ( /\ call.wrapper \in WrapperNames
      /\ result.exc = ""
      /\ result.v.t = "obj"
      /\ "error" \in Keys(result.v)
      /\ "result" \notin Keys(result.v) ) => ret = Return(JNull)

\* A wrapper that was answered with a JSON-RPC error by the node.
C3_NodeErrorSeen ==
    /\ call.wrapper = "get_storage_at"
    /\ net.kind = "ok"
    /\ Get(result.v, "error", JNull) = RpcError
    /\ "result" \notin Keys(result.v)
    /\ ret = Return(JNull)

ExampleResponse(id) ==
    JObj({<<"jsonrpc", JStr(<<"2.0">>)>>, <<"result", JStr(<<"0", "x", "4", "d", "2">>)>>,
          <<"id", JInt(id)>>})

\* C4: when the transport succeeds _make_request returns the parsed body as it
\* is, a JSON-RPC error object included, and a wrapper returns the value of the
\* body's result member when there is one; get_block_number() returns "0x4d2"
\* for {"jsonrpc":"2.0","result":"0x4d2","id":1}.
C4_BodyRelayed ==
    net.kind = "ok" =>
        /\ result.exc = ""
        /\ result.v = net.body
        /\ ( call.wrapper \in WrapperNames /\ net.body.t = "obj" ) =>
              \A m \in net.body.o : m[1] = "result" => ret = Return(m[2])
        /\ ( call.wrapper = "get_block_number" /\ net.body = ExampleResponse(1) ) =>
              /\ ret = Return(JStr(<<"0", "x", "4", "d", "2">>))
              /\ hex_to_int(ret.v) = Return(JInt(1234))

\* get_block_number() answered with the example response.
C4_ExampleAnswered ==
    /\ call.wrapper = "get_block_number"
    /\ net.kind = "ok"
    /\ net.body = ExampleResponse(1)
    /\ ret.v.s = <<"0", "x", "4", "d", "2">>

\* The wire-protocol table: the remote procedure of each wrapper.
TableMethod(w) ==
    CASE w = "get_block_number" -> "eth_blockNumber"
      [] w = "get_balance" -> "eth_getBalance"
      [] w = "get_block_by_number" -> "eth_getBlockByNumber"
      [] w = "get_block_by_hash" -> "eth_getBlockByHash"
      [] w = "get_transaction_by_hash" -> "eth_getTransactionByHash"
      [] w = "get_transaction_receipt" -> "eth_getTransactionReceipt"
      [] w = "call_contract" -> "eth_call"
      [] w = "send_raw_transaction" -> "eth_sendRawTransaction"
      [] w = "estimate_gas" -> "eth_estimateGas"
      [] w = "get_gas_price" -> "eth_gasPrice"
      [] w = "get_code" -> "eth_getCode"
      [] w = "get_storage_at" -> "eth_getStorageAt"
      [] w = "get_network_version" -> "net_version"
      [] w = "is_listening" -> "net_listening"
      [] w = "get_peer_count" -> "net_peerCount"
      [] OTHER -> "web3_clientVersion"

\* The table's trailing parameter with a default: blockTag, includeTransactions.
TableDefault(w) ==
    CASE w \in {"get_balance", "call_contract", "get_code", "get_storage_at"} ->
            <<JStr(<<"latest">>)>>
      [] w \in {"get_block_by_number", "get_block_by_hash"} -> <<JBool(FALSE)>>
      [] OTHER -> <<>>

\* The number of parameters the table gives each remote procedure.
TableArity(w) ==
    CASE w \in {"get_balance", "get_block_by_number", "get_block_by_hash",
                "call_contract", "get_code"} -> 2
      [] w \in {"get_transaction_by_hash", "get_transaction_receipt",
                "send_raw_transaction", "estimate_gas"} -> 1
      [] w = "get_storage_at" -> 3
      [] OTHER -> 0

\* C5: a wrapper issues one request, with the table's method name and with the
\* caller's arguments as params, in order and unaltered; an omitted blockTag is
\* "latest", an omitted includeTransactions is false, and the parameterless
\* methods send an empty params array.
C5_WrapperFollowsTable ==
    /\ [](call.wrapper \in WrapperNames =>
            /\ payload.method = TableMethod(call.wrapper)
            /\ payload.jsonrpc = "2.0"
            /\ Len(payload.params) = TableArity(call.wrapper)
            /\ payload.params =
                 IF Len(call.args) = TableArity(call.wrapper) THEN call.args
                 ELSE call.args \o TableDefault(call.wrapper))
    /\ [][Len(sent_ids') = Len(sent_ids) + 1]_vars

\* get_storage_at called with two different arguments and no block tag.
C5_DefaultedCall ==
    /\ call.wrapper = "get_storage_at"
    /\ Len(call.args) = 2
    /\ call.args[1] # call.args[2]
    /\ payload.params = <<call.args[1], call.args[2], JStr(<<"latest">>)>>

(***************************************************************************)
(* SpecThreads: several threads share one client.  _make_request holds no  *)
(* lock, so its statements interleave: the read of request_id into the     *)
(* payload (line 34), and the read and the write of request_id += 1        *)
(* (line 37), are separate steps of each thread.                           *)
(***************************************************************************)
Threads == 1..NumThreads
ThreadMethods == {"eth_blockNumber", "eth_gasPrice"}
ThreadNets(id) ==
    {Ok(JObj(Common(id) \cup {<<"result", Hex4d2>>})),
     Failure("ConnectionError", "Connection refused")}

ThreadsInit ==
    /\ pc = [t \in Threads |-> "idle"]
    /\ t_payload = [t \in Threads |-> NoPayload]
    /\ t_loaded = [t \in Threads |-> 0]
    /\ t_calls = [t \in Threads |-> 0]

\* Lines 27-35: the thread builds its payload from the counter it sees.
T_Build(t) ==
    /\ pc[t] = "idle"
    /\ t_calls[t] < MaxThreadCalls
    /\ \E method \in ThreadMethods :
          t_payload' = [t_payload EXCEPT ![t] = Envelope(method, NoParams, request_id)]
    /\ pc' = [pc EXCEPT ![t] = "built"]
    /\ UNCHANGED <<t_loaded, t_calls, client_vars, monitor_vars, conv_vars>>

\* Line 37, first half: self.request_id is read.
T_Load(t) ==
    /\ pc[t] = "built"
    /\ t_loaded' = [t_loaded EXCEPT ![t] = request_id]
    /\ pc' = [pc EXCEPT ![t] = "loaded"]
    /\ UNCHANGED <<t_payload, t_calls, client_vars, monitor_vars, conv_vars>>

\* Line 37, second half: the sum is written back.
T_Store(t) ==
    /\ pc[t] = "loaded"
    /\ request_id' = t_loaded[t] + 1
    /\ pc' = [pc EXCEPT ![t] = "stored"]
    /\ UNCHANGED <<sent_ids, payload, net, result, ret, call, failed,
                   t_payload, t_loaded, t_calls, monitor_vars, conv_vars>>

\* Lines 39-49 and the wrapper's return: the payload is posted and answered.
T_Post(t) ==
    /\ pc[t] = "stored"
    /\ \E n \in ThreadNets(t_payload[t].id) :
          /\ net' = n
          /\ result' = Respond(n)
          /\ ret' = ExtractResult(result')
          /\ failed' = IF n.kind \in TransportFailures THEN failed + 1 ELSE failed
    /\ sent_ids' = Append(sent_ids, t_payload[t].id)
    /\ payload' = t_payload[t]
    /\ call' = [wrapper |-> "thread", args |-> <<>>]
    /\ pc' = [pc EXCEPT ![t] = "idle"]
    /\ t_calls' = [t_calls EXCEPT ![t] = @ + 1]
    /\ UNCHANGED <<request_id, t_payload, t_loaded, monitor_vars, conv_vars>>

InitThreads == ClientInit /\ ThreadsInit /\ MonitorIdle /\ ConvIdle
NextThreads == \E t \in Threads : T_Build(t) \/ T_Load(t) \/ T_Store(t) \/ T_Post(t)
SpecThreads == InitThreads /\ [][NextThreads]_vars

\* C6: when threads overlap in _make_request on one client, no two requests are
\* sent with the same id and no increment is lost: once all N calls are over,
\* request_id is N + 1.
C6_UniqueIdsUnderOverlap ==
    /\ \A i, j \in 1..Len(sent_ids) : i # j => sent_ids[i] # sent_ids[j]
    /\ (\A t \in Threads : pc[t] = "idle") => request_id = Len(sent_ids) + 1

(***************************************************************************)
(* SpecMonitor: monitor_blockchain, one step per statement of the loop, and *)
(* the KeyboardInterrupt that may arrive between any two of them.          *)
(***************************************************************************)
LoopPositions == {"poll", "check", "detail", "info", "update", "sleep"}

\* Lines 263-267: a fresh client, last_block = None, the loop is entered.
MonitorInit ==
    /\ mon_pc = "poll"
    /\ last_block = JNull
    /\ current_block = JNull
    /\ block_info = JNull
    /\ announced = <<>>

\* Line 270: current_block = client.get_block_number().
M_Poll ==
    /\ mon_pc = "poll"
    /\ Len(sent_ids) < MaxMonitorRequests
    /\ \E n \in Nets(request_id, ResultValues) : get_block_number(<<>>, n)
    /\ IF ret'.exc = ""
       THEN current_block' = ret'.v /\ mon_pc' = "check"
       ELSE current_block' = current_block /\ mon_pc' = "faulted"
    /\ UNCHANGED <<last_block, block_info, announced, thread_vars, conv_vars>>

\* Line 273: print(f"New block: {block_num}").
NewBlock(polled, block_num) == [value |-> polled, number |-> block_num]

M_Check_ignores_last_block ==
    /\ mon_pc = "check"
    /\ IF Truthy(current_block)
       THEN /\ ret' = hex_to_int(current_block)
            /\ IF ret'.exc = ""
               THEN /\ announced' = Append(announced, NewBlock(current_block, ret'.v.n))
                    /\ mon_pc' = "detail"
               ELSE announced' = announced /\ mon_pc' = "faulted"
       ELSE ret' = ret /\ announced' = announced /\ mon_pc' = "sleep"
    /\ UNCHANGED <<request_id, sent_ids, payload, net, result, call, failed,
                   last_block, current_block, block_info, thread_vars, conv_vars>>

\* Lines 271-273: the test, block_num = hex_to_int(current_block), the print.
M_Check ==
    /\ mon_pc = "check"
    /\ IF Truthy(current_block) /\ current_block # last_block
       THEN /\ ret' = hex_to_int(current_block)
            /\ IF ret'.exc = ""
               THEN /\ announced' = Append(announced, NewBlock(current_block, ret'.v.n))
                    /\ mon_pc' = "detail"
               ELSE announced' = announced /\ mon_pc' = "faulted"
       ELSE ret' = ret /\ announced' = announced /\ mon_pc' = "sleep"
    /\ UNCHANGED <<request_id, sent_ids, payload, net, result, call, failed,
                   last_block, current_block, block_info, thread_vars, conv_vars>>

\* Line 276: block_info = client.get_block_by_number(current_block, False).
M_Detail ==
    /\ mon_pc = "detail"
    /\ \E n \in Nets(request_id, ResultValues) : get_block_by_number(<<current_block, JBool(FALSE)>>, n)
    /\ IF ret'.exc = ""
       THEN block_info' = ret'.v /\ mon_pc' = "info"
       ELSE block_info' = block_info /\ mon_pc' = "faulted"
    /\ UNCHANGED <<last_block, current_block, announced, thread_vars, conv_vars>>

\* Lines 277-280: the timestamp and the hash of a block that was found.
M_Info ==
    /\ mon_pc = "info"
    /\ IF Truthy(block_info)
       THEN /\ ret' = IF block_info.t # "obj" THEN Raise("AttributeError")
                      ELSE hex_to_int(Get(block_info, "timestamp", JStr(<<"0", "x", "0">>)))
            /\ mon_pc' = IF ret'.exc = "" THEN "update" ELSE "faulted"
       ELSE ret' = ret /\ mon_pc' = "update"
    /\ UNCHANGED <<request_id, sent_ids, payload, net, result, call, failed,
                   last_block, current_block, block_info, announced,
                   thread_vars, conv_vars>>

\* Line 282: last_block = current_block.
M_Update ==
    /\ mon_pc = "update"
    /\ last_block' = current_block
    /\ mon_pc' = "sleep"
    /\ UNCHANGED <<client_vars, current_block, block_info, announced,
                   thread_vars, conv_vars>>

\* Line 284: time.sleep(1), then the next iteration.
M_Sleep ==
    /\ mon_pc = "sleep"
    /\ mon_pc' = "poll"
    /\ UNCHANGED <<client_vars, last_block, current_block, block_info, announced,
                   thread_vars, conv_vars>>

\* Lines 286-287: a KeyboardInterrupt inside the try block ends the loop.
M_Interrupt ==
    /\ mon_pc \in LoopPositions
    /\ mon_pc' = "stopped"
    /\ UNCHANGED <<client_vars, last_block, current_block, block_info, announced,
                   thread_vars, conv_vars>>

InitMonitor == ClientInit /\ ThreadsIdle /\ MonitorInit /\ ConvIdle
NextMonitor ==
    \/ M_Poll
    \/ M_Check
    \/ M_Detail
    \/ M_Info
    \/ M_Update
    \/ M_Sleep
    \/ M_Interrupt
SpecMonitor == InitMonitor /\ [][NextMonitor]_vars

\* C9: the monitoring loop does not end on its own, whatever a poll brings; it
\* ends only by the interrupt, and then without a fault.
C9_EndsOnlyByInterrupt == mon_pc \in LoopPositions \cup {"stopped"}

LastAnnounced == IF announced = <<>> THEN JNull ELSE announced[Len(announced)].value

\* C10 as stated: a block is announced, and its details are requested, only
\* when the polled value is present and differs from last_block; last_block
\* changes only after such an announcement, to the polled value; and the same
\* block number is never announced twice in a row.
C10_NoNumberTwiceInARow ==
    /\ \A i \in 1..(Len(announced) - 1) : announced[i].number # announced[i + 1].number
    /\ mon_pc \in {"poll", "check", "sleep"} => last_block = LastAnnounced

\* C10 as amended: a block is announced, and its details are requested, only
\* when the polled value is present and differs from last_block; last_block
\* changes only after such an announcement, to the polled value; between
\* iterations it is the value announced last, so the same polled string is never
\* announced twice in a row (two spellings of one number may be).
C10_AnnouncesOnlyChanges ==
    /\ [][ /\ announced' # announced =>
                /\ Truthy(current_block)
                /\ current_block # JNull
                /\ current_block # last_block
                /\ Len(announced') = Len(announced) + 1
                /\ SubSeq(announced', 1, Len(announced)) = announced
                /\ announced'[Len(announced')].value = current_block
                /\ Return(JInt(announced'[Len(announced')].number)) = hex_to_int(current_block)
           /\ (sent_ids' # sent_ids /\ payload'.method = "eth_getBlockByNumber") =>
                /\ LastAnnounced = current_block
                /\ current_block # last_block
                /\ payload'.params = <<current_block, JBool(FALSE)>>
           /\ last_block' # last_block =>
                /\ last_block' = current_block
                /\ LastAnnounced = current_block ]_vars
    /\ [](\A i \in 1..(Len(announced) - 1) : announced[i].value # announced[i + 1].value)
    /\ [](mon_pc \in {"poll", "check", "sleep"} => last_block = LastAnnounced)

\* Two blocks were announced and a third poll brought the second one again:
\* the iteration went to sleep without a third announcement.
C10_RepeatedPollSilent ==
    /\ mon_pc = "sleep"
    /\ Len(announced) = 2
    /\ Len(sent_ids) = 5
    /\ current_block = last_block
    /\ payload.method = "eth_blockNumber"

(***************************************************************************)
(* SpecConv: the conversion helpers applied to strings and integers.       *)
(***************************************************************************)
ConvAlphabet == {"0", "1", "9", "a", "F", "x", "-"}
ConvStrings == UNION {[1..k -> ConvAlphabet] : k \in 0..MaxLen}
ConvInts == (0 - MaxInt)..MaxInt

InitConv ==
    /\ ClientInit /\ ThreadsIdle /\ MonitorIdle
    /\ hex_str \in ConvStrings
    /\ value \in ConvInts
    /\ hex_str = <<>> \/ value = 0
    /\ conv_op = ""
    /\ conv_ret = Return(JNull)

HexToInt ==
    /\ conv_op = ""
    /\ conv_ret' = hex_to_int(JStr(hex_str))
    /\ conv_op' = "hex_to_int"
    /\ UNCHANGED <<hex_str, value, client_vars, thread_vars, monitor_vars>>

IntToHex ==
    /\ conv_op = ""
    /\ conv_ret' = Return(int_to_hex(value))
    /\ conv_op' = "int_to_hex"
    /\ UNCHANGED <<hex_str, value, client_vars, thread_vars, monitor_vars>>

\* hex_to_int(int_to_hex(value))
RoundTrip ==
    /\ conv_op = "int_to_hex"
    /\ conv_ret' = hex_to_int(conv_ret.v)
    /\ conv_op' = "round_trip"
    /\ UNCHANGED <<hex_str, value, client_vars, thread_vars, monitor_vars>>

NextConv == HexToInt \/ IntToHex \/ RoundTrip
SpecConv == InitConv /\ [][NextConv]_vars

\* C7: hex_to_int(int_to_hex(x)) = x for every x >= 0, and int_to_hex gives
\* the lowercase base-16 digits after "0x": int_to_hex(16) = "0x10".
C7_RoundTrip ==
    /\ (conv_op = "round_trip" /\ value >= 0) => conv_ret = Return(JInt(value))
    /\ (conv_op = "int_to_hex" /\ value >= 0) =>
          /\ conv_ret.v.t = "str"
          /\ Len(conv_ret.v.s) >= 3
          /\ conv_ret.v.s[1] = "0" /\ conv_ret.v.s[2] = "x"
          /\ \A i \in 3..Len(conv_ret.v.s) : \E d \in 1..16 : conv_ret.v.s[i] = HexChars[d]
          /\ value = 16 => conv_ret.v.s = <<"0", "x", "1", "0">>

\* 255 went through int_to_hex and came back from hex_to_int.
C7_RoundTripOf255 ==
    /\ conv_op = "round_trip"
    /\ value = 255
    /\ conv_ret = Return(JInt(255))

\* The value of the characters the model's strings are made of.
CharValue(c) ==
    CASE c = "0" -> 0 [] c = "1" -> 1 [] c = "9" -> 9 [] c = "a" -> 10
      [] c = "F" -> 15 [] OTHER -> 99

\* The number a digit string denotes in a base: the last digit counts once, the
\* digits before it base times as much.
RECURSIVE Denotes(_, _)
Denotes(digits, base) ==
    IF digits = <<>> THEN 0
    ELSE Denotes(SubSeq(digits, 1, Len(digits) - 1), base) * base
         + CharValue(digits[Len(digits)])

Readable(digits, base) ==
    digits # <<>> /\ \A i \in 1..Len(digits) : CharValue(digits[i]) < base

====
